---- MODULE Spec2Model ----
(***************************************************************************)
(* Model of mood-tracker/backend/server.py: the FastAPI handlers over the  *)
(* one MongoDB collection `moods`.  Handlers run on one asyncio event loop *)
(* and can interleave only at their awaits, so every storage operation     *)
(* (find_one, insert_one, update_one, delete_one, count_documents, a       *)
(* cursor read, an aggregate) is one atomic step and the python code       *)
(* between two awaits belongs to the step of the await that follows it.    *)
(* The suspended handler calls are interchangeable and kept as a bag.      *)
(* Text is modelled as sequences of one-character strings.                 *)
(***************************************************************************)
EXTENDS Integers, Sequences, FiniteSets, Bags, TLC

\* ------------------------------------------------------------------ bounds
\* Number of requests a behaviour may start.
MaxReqs == 4

\* Number of requests that can be in flight at once.
NSlots == 2

\* ------------------------------------------------------------------ text
Digit == <<"0", "1", "2", "3", "4", "5", "6", "7", "8", "9">>

\* The digits of n, zero-padded to width w (python's %0wd).
RECURSIVE Pad(_, _)
Pad(n, w) == IF w = 0 THEN <<>> ELSE Pad(n \div 10, w - 1) \o <<Digit[(n % 10) + 1]>>

\* datetime.date.isoformat(): YYYY-MM-DD.  A date is <<year, month, day>>.
IsoFormat(d) == Pad(d[1], 4) \o <<"-">> \o Pad(d[2], 2) \o <<"-">> \o Pad(d[3], 2)

DigitVal(c) == (CHOOSE i \in 1..10 : Digit[i] = c) - 1

RECURSIVE ParseInt(_)
ParseInt(s) == IF s = <<>> THEN 0
               ELSE 10 * ParseInt(SubSeq(s, 1, Len(s) - 1)) + DigitVal(s[Len(s)])

\* pydantic's parse of the stored ISO string into the response's `date` field.
ParseDate(s) == <<ParseInt(SubSeq(s, 1, 4)), ParseInt(SubSeq(s, 6, 7)), ParseInt(SubSeq(s, 9, 10))>>

\* Code-point order of the characters an ISO date is made of ("-" sorts before the digits).
Ord(c) == IF c = "-" THEN 0 ELSE 1 + DigitVal(c)

\* String comparison a < b on ISO dates, as the storage engine sorts strings.
RECURSIVE StrLess(_, _)
StrLess(a, b) ==
    IF b = <<>> THEN FALSE
    ELSE IF a = <<>> THEN TRUE
    ELSE IF a[1] = b[1] THEN StrLess(Tail(a), Tail(b))
    ELSE Ord(a[1]) < Ord(b[1])

Lower == <<"a", "d", "e", "h", "m", "p", "r", "s", "v", "y">>
Upper == <<"A", "D", "E", "H", "M", "P", "R", "S", "V", "Y">>
IsLower(c) == \E i \in 1..Len(Lower) : Lower[i] = c
IsUpper(c) == \E i \in 1..Len(Upper) : Upper[i] = c
IsCased(c) == IsLower(c) \/ IsUpper(c)
ToUpper(c) == IF IsLower(c) THEN Upper[CHOOSE i \in 1..Len(Lower) : Lower[i] = c] ELSE c
ToLower(c) == IF IsUpper(c) THEN Lower[CHOOSE i \in 1..Len(Upper) : Upper[i] = c] ELSE c

\* str.replace(old, new) for one-character old and new.
Replace(s, old, new) == [i \in 1..Len(s) |-> IF s[i] = old THEN new ELSE s[i]]

\* str.title(): a cased character is upper-cased after an uncased one (or at the
\* start) and lower-cased after a cased one.
Title(s) == [i \in 1..Len(s) |->
               IF i = 1 \/ ~IsCased(s[i - 1]) THEN ToUpper(s[i]) ELSE ToLower(s[i])]

\* `needle in hay` for sequences: needle occurs as a contiguous run of hay.
Contains(hay, needle) ==
    \E i \in 0..(Len(hay) - Len(needle)) :
        \A j \in 1..Len(needle) : hay[i + j] = needle[j]

RECURSIVE Concat(_)
Concat(ss) == IF ss = <<>> THEN <<>> ELSE Head(ss) \o Concat(Tail(ss))

\* ------------------------------------------------------------------ csv
\* csv.writer with the default dialect (QUOTE_MINIMAL, doublequote): a field is
\* quoted when it holds the delimiter, the quote character or a character of the
\* line terminator, and every quote character inside it is doubled.
NeedsQuote(f) == \E i \in 1..Len(f) : f[i] \in {",", "\"", "\r", "\n"}

RECURSIVE DoubleQuotes(_)
DoubleQuotes(f) ==
    IF f = <<>> THEN <<>>
    ELSE (IF f[1] = "\"" THEN <<"\"", "\"">> ELSE <<f[1]>>) \o DoubleQuotes(Tail(f))

\* Variant: the field is written as it is, never quoted.
CsvFieldUnquoted(f) == f

CsvField(f) == IF NeedsQuote(f) THEN <<"\"">> \o DoubleQuotes(f) \o <<"\"">> ELSE f

RECURSIVE JoinFields(_)
JoinFields(fs) ==
    IF fs = <<>> THEN <<>>
    ELSE IF Len(fs) = 1 THEN CsvField(fs[1])
    ELSE CsvField(fs[1]) \o <<",">> \o JoinFields(Tail(fs))

\* writer.writerow(fields): the joined fields and the dialect's "\r\n".
WriteRow(fs) == JoinFields(fs) \o <<"\r", "\n">>

\* ------------------------------------------------------------------ data
\* MOOD_OPTIONS.  An emoji glyph is one character, named by its code point.
MOOD_OPTIONS == <<
    [type |-> <<"v", "e", "r", "y", "_", "h", "a", "p", "p", "y">>, emoji |-> <<"U+1F604">>, label |-> <<"V", "e", "r", "y", " ", "H", "a", "p", "p", "y">>],
    [type |-> <<"h", "a", "p", "p", "y">>, emoji |-> <<"U+1F60A">>, label |-> <<"H", "a", "p", "p", "y">>],
    [type |-> <<"c", "o", "n", "t", "e", "n", "t">>, emoji |-> <<"U+1F60C">>, label |-> <<"C", "o", "n", "t", "e", "n", "t">>],
    [type |-> <<"n", "e", "u", "t", "r", "a", "l">>, emoji |-> <<"U+1F610">>, label |-> <<"N", "e", "u", "t", "r", "a", "l">>],
    [type |-> <<"s", "a", "d">>, emoji |-> <<"U+1F614">>, label |-> <<"S", "a", "d">>],
    [type |-> <<"v", "e", "r", "y", "_", "s", "a", "d">>, emoji |-> <<"U+1F622">>, label |-> <<"V", "e", "r", "y", " ", "S", "a", "d">>],
    [type |-> <<"a", "n", "g", "r", "y">>, emoji |-> <<"U+1F624">>, label |-> <<"A", "n", "g", "r", "y">>],
    [type |-> <<"a", "n", "x", "i", "o", "u", "s">>, emoji |-> <<"U+1F630">>, label |-> <<"A", "n", "x", "i", "o", "u", "s">>],
    [type |-> <<"t", "i", "r", "e", "d">>, emoji |-> <<"U+1F634">>, label |-> <<"T", "i", "r", "e", "d">>],
    [type |-> <<"e", "x", "c", "i", "t", "e", "d">>, emoji |-> <<"U+1F929">>, label |-> <<"E", "x", "c", "i", "t", "e", "d">>]
>>

\* datetime.isoformat() of a timestamp; the clock counts seconds of 2024-01-01.
DateTimeIso(t) == IsoFormat(<<2024, 1, 1>>) \o <<"T", "0", "0", ":", "0", "0", ":">> \o Pad(t, 2)

\* HTTPException(status_code, detail); a message is a sequence of words.
HTTPException(status, detail) == [status |-> status, detail |-> detail]

StatusWord(status) == CASE status = 400 -> "400:" [] status = 404 -> "404:" [] OTHER -> "500:"

\* str(e) of an HTTPException: "<status_code>: <detail>".
StrExc(e) == <<StatusWord(e.status)>> \o e.detail

DuplicateDetail == <<"Mood", "entry", "already", "exists", "for", "this", "date">>
NotFoundDetail == <<"Mood", "entry", "not", "found">>
\* The message of the AttributeError that None.pop raises.
NoneTypeDetail == <<"'NoneType'", "object", "has", "no", "attribute", "'pop'">>

\* An absent value (None, or no document found) is the empty sequence and a
\* present one the one-element sequence holding it.
None == <<>>
Some(x) == <<x>>

\* `notes or ""`: None and the empty string both give the empty string.
NotesOrEmpty(notes) == IF notes = None THEN <<>> ELSE notes[1]

\* The request bodies (MoodEntry) a client sends.
Happy == <<"h", "a", "p", "p", "y">>
VerySad == <<"v", "e", "r", "y", "_", "s", "a", "d">>
Bodies == {
    [date |-> <<2024, 1, 9>>, mood_type |-> Happy, emoji |-> <<"U+1F60A">>, notes |-> None],
    [date |-> <<2024, 1, 10>>, mood_type |-> Happy, emoji |-> <<"\"", ",">>, notes |-> Some(<<>>)],
    [date |-> <<2024, 2, 1>>, mood_type |-> VerySad, emoji |-> <<"U+1F622">>,
     notes |-> Some(<<"a", "\n", "b">>)]
}

\* ------------------------------------------------------------------ storage
\* Variant: the lookup is keyed by a value no stored document holds, so it finds nothing.
FindOneByDateNoMatch(coll, iso) == None

\* find_one: the first document, in the collection's natural order, that matches.
FindOneByDate(coll, iso) ==
    IF \E i \in 1..Len(coll) : coll[i].date = iso
    THEN Some(coll[CHOOSE i \in 1..Len(coll) :
                     coll[i].date = iso /\ \A j \in 1..(i - 1) : coll[j].date # iso])
    ELSE None

FirstWithId(coll, id) ==
    CHOOSE i \in 1..Len(coll) : coll[i].id = id /\ \A j \in 1..(i - 1) : coll[j].id # id

FindOneById(coll, id) ==
    IF \E i \in 1..Len(coll) : coll[i].id = id THEN Some(coll[FirstWithId(coll, id)]) ELSE None

\* Variant: the collection has a unique index on date and drops the duplicate.
InsertOneUniqueDate(coll, doc) ==
    IF \E i \in 1..Len(coll) : coll[i].date = doc.date THEN coll ELSE Append(coll, doc)

InsertOne(coll, doc) == Append(coll, doc)

\* Variant: update_many with the filter dropped, every document gets the fields.
UpdateMany(coll, id, set) ==
    [i \in 1..Len(coll) |->
        [coll[i] EXCEPT !.mood_type = set.mood_type, !.emoji = set.emoji,
                        !.notes = set.notes, !.timestamp = set.timestamp]]

\* update_one({"id": id}, {"$set": fields}): the first match gets the fields;
\* no match changes nothing (there is no upsert).
UpdateOne(coll, id, set) ==
    IF \E i \in 1..Len(coll) : coll[i].id = id
    THEN [coll EXCEPT ![FirstWithId(coll, id)] =
             [@ EXCEPT !.mood_type = set.mood_type, !.emoji = set.emoji,
                       !.notes = set.notes, !.timestamp = set.timestamp]]
    ELSE coll

\* delete_one({"id": id}): the first match is removed.
DeleteOne(coll, id) ==
    IF \E i \in 1..Len(coll) : coll[i].id = id
    THEN LET k == FirstWithId(coll, id)
         IN  SubSeq(coll, 1, k - 1) \o SubSeq(coll, k + 1, Len(coll))
    ELSE coll

DeletedCount(coll, id) == IF \E i \in 1..Len(coll) : coll[i].id = id THEN 1 ELSE 0

CountDocuments(coll) == Len(coll)

\* find({}).sort("date", -1): the documents in an order of non-increasing date;
\* the order among equal dates is the engine's choice.
FindSortedByDateDesc(coll) ==
    LET n == Len(coll)
        perms == {f \in [1..n -> 1..n] : \A i, j \in 1..n : i # j => f[i] # f[j]}
    IN  {[i \in 1..n |-> coll[f[i]]] : f \in
            {g \in perms : \A i \in 1..(n - 1) : ~StrLess(coll[g[i]].date, coll[g[i + 1]].date)}}

\* Variant: the group stage without its $sum, every group counts one.
GroupCountOne(coll, m) == 1

\* Variant: the sort stage ascending, {$sort: {count: 1}}.
AggregateAscending(coll) ==
    LET count(m) == Cardinality({i \in 1..Len(coll) : coll[i].mood_type = m})
        groups == {coll[i].mood_type : i \in 1..Len(coll)}
        n == Cardinality(groups)
    IN  {[i \in 1..n |-> [_id |-> f[i], count |-> count(f[i])]] : f \in
            {g \in [1..n -> groups] :
                /\ \A i, j \in 1..n : i # j => g[i] # g[j]
                /\ \A i \in 1..(n - 1) : count(g[i]) <= count(g[i + 1])}}

\* aggregate([{$group: {_id: "$mood_type", count: {$sum: 1}}}, {$sort: {count: -1}}]):
\* one result per distinct mood_type, in an order of non-increasing count; the
\* order among equal counts is the engine's choice.
GroupCount(coll, m) == Cardinality({i \in 1..Len(coll) : coll[i].mood_type = m})

Aggregate(coll) ==
    LET groups == {coll[i].mood_type : i \in 1..Len(coll)}
        n == Cardinality(groups)
    IN  {[i \in 1..n |-> [_id |-> f[i], count |-> GroupCount(coll, f[i])]] : f \in
            {g \in [1..n -> groups] :
                /\ \A i, j \in 1..n : i # j => g[i] # g[j]
                /\ \A i \in 1..(n - 1) : GroupCount(coll, g[i]) >= GroupCount(coll, g[i + 1])}}

\* ------------------------------------------------------------------ handlers' pure parts
\* MoodEntryResponse(**doc): the date string is parsed to a date and serialised
\* back to its ISO form in the JSON response.
MoodEntryResponse(doc) ==
    [id |-> doc.id, date |-> IsoFormat(ParseDate(doc.date)), mood_type |-> doc.mood_type,
     emoji |-> doc.emoji, notes |-> doc.notes, timestamp |-> doc.timestamp]

\* Variant: the clause wraps every exception, the duplicate one included.
CreateExceptWrapAll(e) == HTTPException(500, <<"Error", "creating", "mood", "entry:">> \o StrExc(e))

\* create_mood_entry's `except Exception as e` clause.
CreateExcept(e) ==
    IF Contains(StrExc(e), <<"already", "exists">>) THEN e
    ELSE HTTPException(500, <<"Error", "creating", "mood", "entry:">> \o StrExc(e))

\* Variant: the notes stored as str(mood.notes), without the `or ""`.
MoodDictStrNotes(id, mood, ts) ==
    [id |-> id, date |-> IsoFormat(mood.date), mood_type |-> mood.mood_type,
     emoji |-> mood.emoji,
     notes |-> IF mood.notes = None THEN <<"N", "o", "n", "e">> ELSE mood.notes[1],
     timestamp |-> ts]

\* The mood_dict create_mood_entry builds.
MoodDict(id, mood, ts) ==
    [id |-> id, date |-> IsoFormat(mood.date), mood_type |-> mood.mood_type,
     emoji |-> mood.emoji, notes |-> NotesOrEmpty(mood.notes), timestamp |-> ts]

\* The updated_mood that update_mood_entry $sets.
UpdatedMood(mood, ts) ==
    [mood_type |-> mood.mood_type, emoji |-> mood.emoji,
     notes |-> NotesOrEmpty(mood.notes), timestamp |-> ts]

\* The row export_moods_csv writes for a document.
CsvRow(doc) ==
    <<doc.date, Title(Replace(doc.mood_type, "_", " ")), doc.emoji, doc.notes,
      DateTimeIso(doc.timestamp)>>

CsvHeader == <<<<"D", "a", "t", "e">>, <<"M", "o", "o", "d">>, <<"E", "m", "o", "j", "i">>,
               <<"N", "o", "t", "e", "s">>, <<"T", "i", "m", "e", "s", "t", "a", "m", "p">>>>

\* The document export_moods_csv returns for the cursor's documents.
CsvDocument(docs) == WriteRow(CsvHeader) \o Concat([i \in 1..Len(docs) |-> WriteRow(CsvRow(docs[i]))])

\* One mood_distribution item of get_mood_stats for an aggregate result.
DistributionItem(result) ==
    LET hits == {i \in 1..Len(MOOD_OPTIONS) : MOOD_OPTIONS[i].type = result._id}
        first == CHOOSE i \in hits : \A j \in hits : i <= j
    IN  [mood_type |-> result._id, count |-> result.count,
         emoji |-> IF hits # {} THEN MOOD_OPTIONS[first].emoji ELSE <<"U+2753">>,
         label |-> IF hits # {} THEN MOOD_OPTIONS[first].label ELSE Title(result._id)]

\* ------------------------------------------------------------------ state
VARIABLES
    store,      \* the documents of moods_collection, in natural (insertion) order
    nextId,     \* how many ids uuid.uuid4() has generated
    now,        \* the last value datetime.utcnow() returned
    inflight,   \* the bag of suspended handler calls: each the await it is at
                \* and its arguments and locals
    resp,       \* the response the last step sent (op "none" when it sent none)
    nReq,       \* the number of requests started
    deleted,    \* history: the ids a delete request has removed
    created     \* history: id -> the body of its create request, for the ids
                \* neither updated nor deleted since

vars == <<store, nextId, now, inflight, resp, nReq, deleted, created>>

\* A handler call suspended at await `at`.
Call(at) == [at |-> at, mood_id |-> 0, mood |-> None, total_entries |-> 0,
             wrote |-> FALSE, changed |-> FALSE]

NoResp == [op |-> "none", status |-> 0, detail |-> <<>>, mood_id |-> 0, mood |-> None,
           rec |-> None, list |-> <<>>, csv |-> <<>>, total_entries |-> 0,
           mood_distribution |-> <<>>, wrote |-> FALSE, changed |-> FALSE]

Init ==
    /\ store = <<>>
    /\ nextId = 0
    /\ now = 0
    /\ inflight = EmptyBag
    /\ resp = NoResp
    /\ nReq = 0
    /\ deleted = {}
    /\ created = <<>>

\* The ids a client can name: those generated so far, and 0, which none ever is.
ClientIds == 0..nextId

\* A new request is accepted while a slot is free.
Accepts == BagCardinality(inflight) < NSlots /\ nReq < MaxReqs

Suspend(c) == inflight (+) SetToBag({c})
Resume(c) == inflight (-) SetToBag({c})

\* Variant: the id taken from the number of documents, which a delete frees for reuse.
Uuid4FromCount == Len(store) + 1

\* str(uuid.uuid4()): an id never generated before.
Uuid4 == nextId + 1

\* datetime.utcnow(): the calls are made one after another on the event loop's
\* thread, each separated from the last by a storage round trip, so each reads a
\* later instant than the one before.
UtcNow == now + 1

Without(f, id) == [i \in (DOMAIN f) \ {id} |-> f[i]]

\* A create or delete lands: the stats calls between their two reads are marked.
MarkChanged(b) ==
    LET mark(c) == IF c.at = "s_agg" THEN [c EXCEPT !.changed = TRUE] ELSE c
        copies(c) == IF c \in DOMAIN b THEN b[c] ELSE 0
    IN  [m \in {mark(c) : c \in DOMAIN b} |->
            IF m.at = "s_agg" THEN copies(m) + copies([m EXCEPT !.changed = FALSE]) ELSE copies(m)]

Raise(op, e, c) ==
    [NoResp EXCEPT !.op = op, !.status = e.status, !.detail = e.detail,
                   !.mood_id = c.mood_id, !.mood = c.mood, !.wrote = c.wrote]

\* ------------------------------------------------------------------ POST /api/moods
\* Lines 68-73 and 86-89: the existence lookup, and the 400 when it finds one.
CreateFind ==
    \E mood \in Bodies :
        /\ Accepts
        /\ nReq' = nReq + 1
        /\ LET existing_mood == FindOneByDate(store, IsoFormat(mood.date))
               c == [Call("c_insert") EXCEPT !.mood = Some(mood)]
           IN  IF existing_mood # None
               THEN /\ resp' = Raise("create", CreateExcept(HTTPException(400, DuplicateDetail)), c)
                    /\ UNCHANGED inflight
               ELSE /\ inflight' = Suspend(c)
                    /\ resp' = NoResp
        /\ UNCHANGED <<store, nextId, now, deleted, created>>

\* Lines 75-85: the mood_dict, its insert and the response.
CreateInsert ==
    \E c \in BagToSet(inflight) :
        /\ c.at = "c_insert"
        /\ LET ts == UtcNow
               mood_dict == MoodDict(Uuid4, c.mood[1], ts)
           IN   /\ now' = ts
                /\ nextId' = nextId + 1
                /\ store' = InsertOne(store, mood_dict)
                /\ created' = (mood_dict.id :> c.mood[1]) @@ created
                /\ resp' = [NoResp EXCEPT !.op = "create", !.status = 200, !.mood = c.mood,
                                          !.rec = Some(MoodEntryResponse(mood_dict)), !.wrote = TRUE]
        /\ inflight' = MarkChanged(Resume(c))
        /\ UNCHANGED <<nReq, deleted>>

\* ------------------------------------------------------------------ GET /api/moods
GetEntries ==
    /\ Accepts
    /\ nReq' = nReq + 1
    /\ \E moods \in FindSortedByDateDesc(store) :
        resp' = [NoResp EXCEPT !.op = "list", !.status = 200,
                               !.list = [i \in 1..Len(moods) |-> MoodEntryResponse(moods[i])]]
    /\ UNCHANGED <<store, nextId, now, inflight, deleted, created>>

\* ------------------------------------------------------------------ GET /api/moods/{mood_id}
GetEntry ==
    \E mood_id \in ClientIds :
        /\ Accepts
        /\ nReq' = nReq + 1
        /\ LET mood == FindOneById(store, mood_id)
               c == [Call("get") EXCEPT !.mood_id = mood_id]
           IN  resp' = IF mood = None
                       THEN Raise("get", HTTPException(404, NotFoundDetail), c)
                       ELSE [NoResp EXCEPT !.op = "get", !.status = 200, !.mood_id = mood_id,
                                           !.rec = Some(MoodEntryResponse(mood[1]))]
        /\ UNCHANGED <<store, nextId, now, inflight, deleted, created>>

\* ------------------------------------------------------------------ PUT /api/moods/{mood_id}
\* Lines 119-121: the lookup, and the 404 when it finds nothing.
UpdateFind ==
    \E mood_id \in ClientIds, mood \in Bodies :
        /\ Accepts
        /\ nReq' = nReq + 1
        /\ LET existing_mood == FindOneById(store, mood_id)
               c == [Call("u_set") EXCEPT !.mood_id = mood_id, !.mood = Some(mood)]
           IN  IF existing_mood = None
               THEN /\ resp' = Raise("update", HTTPException(404, NotFoundDetail), c)
                    /\ UNCHANGED inflight
               ELSE /\ inflight' = Suspend(c)
                    /\ resp' = NoResp
        /\ UNCHANGED <<store, nextId, now, deleted, created>>

\* Lines 123-133: the updated_mood and its update_one.
UpdateSet ==
    \E c \in BagToSet(inflight) :
        /\ c.at = "u_set"
        /\ LET ts == UtcNow
           IN  /\ now' = ts
               /\ store' = UpdateOne(store, c.mood_id, UpdatedMood(c.mood[1], ts))
        /\ LET matched == FindOneById(store, c.mood_id) # None
           IN  /\ inflight' = Resume(c) (+) SetToBag({[c EXCEPT !.at = "u_fetch", !.wrote = matched]})
               /\ created' = IF matched THEN Without(created, c.mood_id) ELSE created
        /\ resp' = NoResp
        /\ UNCHANGED <<nextId, nReq, deleted>>

\* Lines 135-142: the second lookup; on None its .pop raises AttributeError,
\* which the `except Exception` clause turns into a 500.
UpdateFetch ==
    \E c \in BagToSet(inflight) :
        /\ c.at = "u_fetch"
        /\ LET updated_mood_doc == FindOneById(store, c.mood_id)
           IN  resp' = IF updated_mood_doc = None
                       THEN Raise("update", HTTPException(500, <<"Error", "updating", "mood", "entry:">>
                                                                \o NoneTypeDetail), c)
                       ELSE [NoResp EXCEPT !.op = "update", !.status = 200,
                                           !.mood_id = c.mood_id, !.mood = c.mood,
                                           !.rec = Some(MoodEntryResponse(updated_mood_doc[1])),
                                           !.wrote = c.wrote]
        /\ inflight' = Resume(c)
        /\ UNCHANGED <<store, nextId, now, nReq, deleted, created>>

\* ------------------------------------------------------------------ DELETE /api/moods/{mood_id}
DeleteEntry ==
    \E mood_id \in ClientIds :
        /\ Accepts
        /\ nReq' = nReq + 1
        /\ store' = DeleteOne(store, mood_id)
        /\ LET c == [Call("delete") EXCEPT !.mood_id = mood_id]
           IN  IF DeletedCount(store, mood_id) = 0
               THEN /\ resp' = Raise("delete", HTTPException(404, NotFoundDetail), c)
                    /\ UNCHANGED <<inflight, deleted, created>>
               ELSE /\ resp' = [NoResp EXCEPT !.op = "delete", !.status = 200,
                                              !.mood_id = mood_id, !.wrote = TRUE]
                    /\ inflight' = MarkChanged(inflight)
                    /\ deleted' = deleted \cup {mood_id}
                    /\ created' = Without(created, mood_id)
        /\ UNCHANGED <<nextId, now>>

\* ------------------------------------------------------------------ GET /api/moods/export/csv
ExportCsv ==
    /\ Accepts
    /\ nReq' = nReq + 1
    /\ \E docs \in FindSortedByDateDesc(store) :
        resp' = [NoResp EXCEPT !.op = "export", !.status = 200, !.csv = CsvDocument(docs)]
    /\ UNCHANGED <<store, nextId, now, inflight, deleted, created>>

\* ------------------------------------------------------------------ GET /api/stats
\* Line 196: count_documents.
StatsCount ==
    /\ Accepts
    /\ nReq' = nReq + 1
    /\ inflight' = Suspend([Call("s_agg") EXCEPT !.total_entries = CountDocuments(store)])
    /\ resp' = NoResp
    /\ UNCHANGED <<store, nextId, now, deleted, created>>

\* Lines 199-217: the aggregate and the response.
StatsAggregate ==
    \E c \in BagToSet(inflight) :
        /\ c.at = "s_agg"
        /\ \E results \in Aggregate(store) :
            resp' = [NoResp EXCEPT !.op = "stats", !.status = 200,
                                   !.total_entries = c.total_entries,
                                   !.mood_distribution =
                                       [i \in 1..Len(results) |-> DistributionItem(results[i])],
                                   !.changed = c.changed]
        /\ inflight' = Resume(c)
        /\ UNCHANGED <<store, nextId, now, nReq, deleted, created>>

\* ------------------------------------------------------------------ specifications
\* A request arrives: the handler runs to its first await's storage operation.
Arrive ==
    \/ CreateFind
    \/ GetEntries
    \/ GetEntry
    \/ UpdateFind
    \/ DeleteEntry
    \/ ExportCsv
    \/ StatsCount

\* A suspended handler call resumes.
Proceed ==
    \/ CreateInsert
    \/ UpdateSet
    \/ UpdateFetch
    \/ StatsAggregate

\* Requests overlap freely.
Next == Arrive \/ Proceed

Spec == Init /\ [][Next]_vars

\* Each request runs to completion before the next one starts: a request
\* arrives only while no call is suspended.
SeqNext ==
    \/ inflight = EmptyBag /\ CreateFind
    \/ inflight = EmptyBag /\ GetEntries
    \/ inflight = EmptyBag /\ GetEntry
    \/ inflight = EmptyBag /\ UpdateFind
    \/ inflight = EmptyBag /\ DeleteEntry
    \/ inflight = EmptyBag /\ ExportCsv
    \/ inflight = EmptyBag /\ StatsCount
    \/ Proceed

SeqSpec == Init /\ [][SeqNext]_vars

\* ------------------------------------------------------------------ helpers of the properties
Ids(coll) == {coll[i].id : i \in 1..Len(coll)}
WithId(coll, id) == {i \in 1..Len(coll) : coll[i].id = id}
WithDate(coll, iso) == {i \in 1..Len(coll) : coll[i].date = iso}

\* Position i of text t is the last character of a line break: "\r\n" is one
\* break, a lone "\r" or "\n" is one break (str.splitlines).
BreakAt(t, i) == t[i] = "\n" \/ (t[i] = "\r" /\ (i = Len(t) \/ t[i + 1] # "\n"))

\* The number of lines of a text that ends with a line break.
NumLines(t) == Cardinality({i \in 1..Len(t) : BreakAt(t, i)})

\* The elements of a finite set of numbers in increasing order.
Sorted(S) == [k \in 1..Cardinality(S) |-> CHOOSE x \in S : Cardinality({y \in S : y < x}) = k - 1]

\* csv.reader: position i of t is outside a quoted field when an even number of
\* quote characters precedes it.
Outside(t, i) == Cardinality({k \in 1..(i - 1) : t[k] = "\""}) % 2 = 0

\* A field as written, read back: the enclosing quotes dropped and each doubled
\* quote read as one.
Unquote(raw) ==
    LET keep == Sorted({i \in 1..Len(raw) :
                    \/ raw[i] # "\""
                    \/ (~Outside(raw, i) /\ i < Len(raw) /\ raw[i + 1] = "\"")})
    IN  [k \in 1..Len(keep) |-> raw[keep[k]]]

\* The pieces of t between the positions of cuts (an increasing sequence), each
\* cut being `width[k]` characters wide and ending at cuts[k]; the text after the
\* last cut is a piece when `rest` says so.
Pieces(t, cuts, width, rest) ==
    [k \in 1..(Len(cuts) + (IF rest THEN 1 ELSE 0)) |->
        SubSeq(t, IF k = 1 THEN 1 ELSE cuts[k - 1] + 1,
                  IF k > Len(cuts) THEN Len(t) ELSE cuts[k] - width[k])]

\* csv.reader on a row's text: its fields.
CsvFields(r) ==
    LET commas == Sorted({i \in 1..Len(r) : r[i] = "," /\ Outside(r, i)})
        raw == Pieces(r, commas, [k \in 1..Len(commas) |-> 1], TRUE)
    IN  [k \in 1..Len(raw) |-> Unquote(raw[k])]

\* csv.reader on the document: the rows, each the list of its fields.
CsvRows(t) ==
    LET ends == Sorted({i \in 1..Len(t) : BreakAt(t, i) /\ Outside(t, i)})
        width == [k \in 1..Len(ends) |->
                    IF t[ends[k]] = "\n" /\ ends[k] > 1 /\ t[ends[k] - 1] = "\r" THEN 2 ELSE 1]
        rows == Pieces(t, ends, width, FALSE)
    IN  [k \in 1..Len(rows) |-> CsvFields(rows[k])]

\* The record has the fields of the request body `mood` (notes defaulting to "").
HasRequestFields(rec, mood) ==
    /\ rec.date = IsoFormat(mood.date)
    /\ rec.mood_type = mood.mood_type
    /\ rec.emoji = mood.emoji
    /\ rec.notes = (IF mood.notes = None THEN <<>> ELSE mood.notes[1])

\* The step is the arrival of a request: its first storage operation.
Arrival == nReq' = nReq + 1

\* The calls suspended at `at`.
CallsAt(b, at) == {c \in BagToSet(b) : c.at = at}

\* The step is the arrival of a create request with body `mood`.
CreateArrival(mood) ==
    /\ Arrival
    /\ \/ resp'.op = "create" /\ resp'.mood = Some(mood)
       \/ \E c \in CallsAt(inflight', "c_insert") :
             c.mood = Some(mood) /\ CopiesIn(c, inflight') = CopiesIn(c, inflight) + 1

\* The step is the arrival of an update request for `id`.
UpdateArrival(id) ==
    /\ Arrival
    /\ \/ resp'.op = "update" /\ resp'.mood_id = id
       \/ \E c \in CallsAt(inflight', "u_set") :
             c.mood_id = id /\ CopiesIn(c, inflight') = CopiesIn(c, inflight) + 1

\* The step is a later step of an update request for `id`: its update_one or
\* its second lookup.
UpdateProgress(id) ==
    /\ ~Arrival
    /\ \/ \E c \in CallsAt(inflight, "u_set") :
             c.mood_id = id /\ CopiesIn(c, inflight') = CopiesIn(c, inflight) - 1
       \/ resp'.op = "update" /\ resp'.mood_id = id

\* The step is the insert of a create request with body `mood`.
CreateCompletion(mood) ==
    /\ ~Arrival
    /\ \E c \in CallsAt(inflight, "c_insert") :
          c.mood = Some(mood) /\ CopiesIn(c, inflight') = CopiesIn(c, inflight) - 1

RECURSIVE SumCounts(_)
SumCounts(dist) == IF dist = <<>> THEN 0 ELSE Head(dist).count + SumCounts(Tail(dist))

\* ------------------------------------------------------------------ C1
\* C1: when each request runs to completion before the next one starts, the
\* store never holds two entries with the same date.
C1_OneEntryPerDate ==
    \A i, j \in 1..Len(store) : i # j => store[i].date # store[j].date

\* A create succeeded into a store that holds another entry, after a delete.
C1_Witness ==
    resp.op = "create" /\ resp.status = 200 /\ Len(store) >= 2 /\ deleted # {}

\* ------------------------------------------------------------------ C2
\* C2: a create request whose date already has an entry when it arrives is
\* answered 400 and changes nothing in the store.
C2_DuplicateRejected ==
    [][\A mood \in Bodies :
          (CreateArrival(mood) /\ WithDate(store, IsoFormat(mood.date)) # {})
              => (resp'.op = "create" /\ resp'.status = 400 /\ store' = store)]_vars

\* A create was answered 400 while the store holds the entry of its date.
C2_Witness ==
    /\ resp.op = "create" /\ resp.status = 400
    /\ WithDate(store, IsoFormat(resp.mood[1].date)) # {}

\* ------------------------------------------------------------------ C3
\* C3: a create request whose date has no entry succeeds with a record whose id
\* is new to the store and whose fields are the request's; and as long as the id
\* is neither updated nor deleted, a get of it returns those fields.
C3_CreateThenGet ==
    /\ resp.op = "create" =>
          \/ /\ resp.status = 200
             /\ Cardinality(WithId(store, resp.rec[1].id)) = 1
             /\ store[Len(store)].id = resp.rec[1].id
             /\ HasRequestFields(resp.rec[1], resp.mood[1])
          \/ /\ resp.status = 400
             /\ WithDate(store, IsoFormat(resp.mood[1].date)) # {}
    /\ (resp.op = "get" /\ resp.mood_id \in DOMAIN created) =>
          /\ resp.status = 200
          /\ resp.rec[1].id = resp.mood_id
          /\ HasRequestFields(resp.rec[1], created[resp.mood_id])

\* A get returned the entry of a create request that omitted its notes, with
\* other requests served in between.
C3_Witness ==
    /\ resp.op = "get" /\ resp.status = 200
    /\ resp.mood_id \in DOMAIN created
    /\ created[resp.mood_id].notes = None
    /\ resp.rec[1].notes = <<>>
    /\ nReq >= 3

\* ------------------------------------------------------------------ C4
\* C4: an update request for an id no entry has is answered 404 and changes
\* nothing; every step of an update request for an existing id keeps the number
\* of entries, every entry's id and date, and every entry with another id.
C4_UpdateFrame ==
    [][\A id \in ClientIds :
          /\ (UpdateArrival(id) /\ WithId(store, id) = {})
                => (resp'.op = "update" /\ resp'.status = 404 /\ store' = store)
          /\ (UpdateArrival(id) /\ WithId(store, id) # {})
                => (resp'.op = "none" /\ store' = store)
          /\ UpdateProgress(id) =>
                /\ Len(store') = Len(store)
                /\ \A i \in 1..Len(store) :
                      /\ store'[i].id = store[i].id
                      /\ store'[i].date = store[i].date
                      /\ store[i].id # id => store'[i] = store[i]]_vars

\* An update whose body carries another date than the entry's succeeded, with
\* another entry in the store.
C4_Witness ==
    /\ resp.op = "update" /\ resp.status = 200 /\ resp.wrote
    /\ IsoFormat(resp.mood[1].date) # resp.rec[1].date
    /\ resp.rec[1].mood_type = resp.mood[1].mood_type
    /\ Len(store) >= 2

\* ------------------------------------------------------------------ C5
\* C5: a deleted id is never in the store again, and every get, update and
\* delete request for it that arrives after the delete is answered 404; a delete
\* request for an id no entry has is answered 404 and changes nothing.
C5_DeletionPermanent ==
    /\ [](\A id \in deleted : WithId(store, id) = {})
    /\ [][/\ (Arrival /\ resp'.op \in {"get", "update", "delete"} /\ resp'.mood_id \in deleted)
                => resp'.status = 404
          /\ \A id \in deleted : ~(UpdateArrival(id) /\ resp'.op = "none")
          /\ \A id \in ClientIds :
                (Arrival /\ resp'.op = "delete" /\ resp'.mood_id = id /\ WithId(store, id) = {})
                    => (resp'.status = 404 /\ store' = store)]_vars

\* A get of a deleted id was answered 404 after a later create.
C5_Witness ==
    /\ resp.op = "get" /\ resp.status = 404
    /\ resp.mood_id \in deleted
    /\ \E i \in 1..Len(store) : store[i].id > resp.mood_id

\* ------------------------------------------------------------------ C6
\* The line breaks inside the free-form fields of a document.
BreaksIn(doc) == NumLines(doc.mood_type) + NumLines(doc.emoji) + NumLines(doc.notes)

RECURSIVE SumBreaks(_)
SumBreaks(coll) == IF coll = <<>> THEN 0 ELSE BreaksIn(Head(coll)) + SumBreaks(Tail(coll))

RowsInDateOrder(rows) ==
    \A i \in 2..(Len(rows) - 1) : ~StrLess(rows[i][1], rows[i + 1][1])

\* C6 as stated: the export of N entries has exactly N+1 lines, the header and
\* one line per entry in date-descending order; the export of no entry is the
\* header row.
C6_LinesAsStated ==
    resp.op = "export" =>
        /\ NumLines(resp.csv) = Len(store) + 1
        /\ RowsInDateOrder(CsvRows(resp.csv))
        /\ Len(store) = 0 => resp.csv = WriteRow(CsvHeader)

\* C6 amended: the export of N entries reads back as exactly N+1 CSV records,
\* the header and one record per entry in date-descending order, each with the
\* entry's field values; its number of lines is N+1 plus the number of line
\* breaks inside the entries' text fields, hence N+1 when no field holds one; the
\* export of no entry is the header row.
C6_RecordsPerEntry ==
    resp.op = "export" =>
        LET rows == CsvRows(resp.csv)
        IN  /\ Len(rows) = Len(store) + 1
            /\ rows[1] = CsvHeader
            /\ RowsInDateOrder(rows)
            /\ \A i \in 1..Len(store) :
                  Cardinality({k \in 2..Len(rows) : rows[k] = CsvRow(store[i])})
                      = Cardinality({j \in 1..Len(store) : CsvRow(store[j]) = CsvRow(store[i])})
            /\ NumLines(resp.csv) = Len(store) + 1 + SumBreaks(store)
            /\ Len(store) = 0 => resp.csv = WriteRow(CsvHeader)

\* An export of two entries, one with a line break in its notes and one with a
\* comma and a quote in its emoji, has more than three lines.
C6_Witness ==
    /\ resp.op = "export" /\ Len(store) = 2
    /\ SumBreaks(store) >= 1
    /\ \E i \in 1..2 : store[i].emoji = <<"\"", ",">>
    /\ NumLines(resp.csv) > 3
    /\ StrLess(store[1].date, store[2].date)

\* ------------------------------------------------------------------ C7
\* C7: a stats request that overlaps no other request returns the number of
\* entries as total_entries and one mood_distribution item per mood_type of the
\* store, with the number of entries of that mood_type as its count, in
\* non-increasing order of count.
C7_StatsOfStore ==
    resp.op = "stats" =>
        LET dist == resp.mood_distribution
        IN  /\ resp.total_entries = Len(store)
            /\ {dist[i].mood_type : i \in 1..Len(dist)} = {store[i].mood_type : i \in 1..Len(store)}
            /\ \A i, j \in 1..Len(dist) : i # j => dist[i].mood_type # dist[j].mood_type
            /\ \A i \in 1..Len(dist) :
                  dist[i].count = Cardinality({k \in 1..Len(store) : store[k].mood_type = dist[i].mood_type})
            /\ \A i \in 1..(Len(dist) - 1) : dist[i].count >= dist[i + 1].count

\* Stats of three entries, two of one mood and one of another.
C7_Witness ==
    /\ resp.op = "stats" /\ Len(store) = 3
    /\ Len(resp.mood_distribution) = 2
    /\ resp.mood_distribution[1].count = 2
    /\ resp.mood_distribution[2].count = 1

\* ------------------------------------------------------------------ C8
\* C8: the insert of a create request does not look at the store again: once a
\* request has passed its lookup it ends with 200 and a new entry with a new id,
\* whatever was inserted since; so of two create requests for one date that both
\* pass the lookup before either inserts, both succeed.
C8_InsertAfterLookup ==
    [][\A mood \in Bodies :
          CreateCompletion(mood) =>
              /\ resp'.op = "create" /\ resp'.status = 200
              /\ resp'.rec[1].id \notin Ids(store)
              /\ Len(store') = Len(store) + 1
              /\ SubSeq(store', 1, Len(store)) = store
              /\ store'[Len(store')].id = resp'.rec[1].id
              /\ store'[Len(store')].date = IsoFormat(mood.date)]_vars

\* Two create requests, the only requests so far, both succeeded and the store
\* holds two entries with one date and two ids.
C8_Witness ==
    /\ nReq = 2 /\ Len(store) = 2
    /\ resp.op = "create" /\ resp.status = 200
    /\ store[1].date = store[2].date
    /\ store[1].id # store[2].id

\* ------------------------------------------------------------------ C9
\* C9: an update request ends either with 404 and no write of its own, or with
\* 200 and a record holding the mood_type, emoji and notes it supplied.
C9_UpdateOutcome ==
    resp.op = "update" =>
        \/ resp.status = 404 /\ ~resp.wrote
        \/ /\ resp.status = 200
           /\ resp.rec[1].mood_type = resp.mood[1].mood_type
           /\ resp.rec[1].emoji = resp.mood[1].emoji
           /\ resp.rec[1].notes = (IF resp.mood[1].notes = None THEN <<>> ELSE resp.mood[1].notes[1])

\* ------------------------------------------------------------------ C10
\* C10 as stated: in every stats response the counts sum to total_entries.
C10_SumAsStated ==
    resp.op = "stats" => SumCounts(resp.mood_distribution) = resp.total_entries

\* C10 amended: in every stats response the counts sum to the number of entries
\* at the second read; they sum to total_entries whenever no create inserted and
\* no delete removed an entry between the two reads.
C10_SumUnlessChanged ==
    resp.op = "stats" =>
        /\ SumCounts(resp.mood_distribution) = Len(store)
        /\ ~resp.changed => SumCounts(resp.mood_distribution) = resp.total_entries

\* A stats response over two entries of two moods, with an update written
\* between its two reads and no create or delete.
C10_Witness ==
    /\ resp.op = "stats" /\ ~resp.changed
    /\ resp.total_entries = 2
    /\ Len(resp.mood_distribution) = 2
    /\ \E c \in CallsAt(inflight, "u_fetch") : c.wrote

====
